---- MODULE Spec2Model ----
(***************************************************************************)
(* Model of pdf_picker/picker.py: search for PDFs, select one, extract its *)
(* table of contents, optionally select an entry, and launch the viewer.   *)
(*                                                                         *)
(* Python strings are sequences of one-character strings, so formatting,   *)
(* parsing, substitution and word splitting are computed character by      *)
(* character.  Optional values use the distinguished value None.           *)
(***************************************************************************)
EXTENDS Integers, Sequences, FiniteSets, TLC

\* ------------------------------------------------------------------------
\* Python values and string primitives used by picker.py
\* ------------------------------------------------------------------------

\* Python's None; no string is equal to it (every character has length one).
None == <<"None">>

Digits == <<"0", "1", "2", "3", "4", "5", "6", "7", "8", "9">>

IsDigit(c) == \E d \in 1..10 : Digits[d] = c

DigitVal(c) == (CHOOSE d \in 1..10 : Digits[d] = c) - 1

\* string.whitespace restricted to the characters the model's inputs use
IsSpace(c) == c \in {" ", "\t", "\n"}

RECURSIVE NatStr(_)
NatStr(n) ==
    IF n < 10 THEN <<Digits[n + 1]>>
    ELSE NatStr(n \div 10) \o <<Digits[(n % 10) + 1]>>

\* str(n) and f"{n}" for an int n
Str(n) == IF n < 0 THEN <<"-">> \o NatStr(-n) ELSE NatStr(n)

\* str(v) for a float v holding an integral value (pymupdf points hold floats)
FloatStr(n) == Str(n) \o <<".", "0">>

\* "sep".join(items)
RECURSIVE Join(_, _)
Join(sep, items) ==
    IF items = <<>> THEN <<>>
    ELSE IF Len(items) = 1 THEN items[1]
    ELSE items[1] \o sep \o Join(sep, Tail(items))

\* s.split("\n"): one more piece than there are newlines
RECURSIVE SplitFrom(_, _, _)
SplitFrom(s, i, cur) ==
    IF i > Len(s) THEN <<cur>>
    ELSE IF s[i] = "\n" THEN <<cur>> \o SplitFrom(s, i + 1, <<>>)
    ELSE SplitFrom(s, i + 1, Append(cur, s[i]))

SplitLines(s) == SplitFrom(s, 1, <<>>)

\* lst[:-1]
DropLast(lst) == IF lst = <<>> THEN <<>> ELSE SubSeq(lst, 1, Len(lst) - 1)

\* shlex.split(s) on text without quotes or backslashes: the words between
\* runs of whitespace
RECURSIVE ShlexFrom(_, _, _)
ShlexFrom(s, i, cur) ==
    IF i > Len(s) THEN (IF cur = <<>> THEN <<>> ELSE <<cur>>)
    ELSE IF IsSpace(s[i])
         THEN (IF cur = <<>> THEN <<>> ELSE <<cur>>) \o ShlexFrom(s, i + 1, <<>>)
         ELSE ShlexFrom(s, i + 1, Append(cur, s[i]))

ShlexSplit(s) == ShlexFrom(s, 1, <<>>)

MatchAt(s, i, pat) ==
    /\ i + Len(pat) - 1 <= Len(s)
    /\ SubSeq(s, i, i + Len(pat) - 1) = pat

\* re.sub(pattern, repl, s) for a pattern matching the literal text pat:
\* every non-overlapping occurrence, left to right, is replaced
RECURSIVE ReSubFrom(_, _, _, _)
ReSubFrom(pat, repl, s, i) ==
    IF i > Len(s) THEN <<>>
    ELSE IF MatchAt(s, i, pat) THEN repl \o ReSubFrom(pat, repl, s, i + Len(pat))
    ELSE <<s[i]>> \o ReSubFrom(pat, repl, s, i + 1)

ReSub(pat, repl, s) == ReSubFrom(pat, repl, s, 1)

\* re.sub(r".*/", "", p) on a single-line p: the greedy match runs to the
\* last "/", so what is left is the text after it
StripDirs(p) ==
    LET slashes == {i \in 1..Len(p) : p[i] = "/"}
    IN  IF slashes = {} THEN p
        ELSE SubSeq(p, (CHOOSE i \in slashes : \A j \in slashes : j <= i) + 1, Len(p))

\* re.search(r"\d*", s).group(0): the match is found at position 0 and is the
\* longest run of digits starting there, possibly empty
RECURSIVE DigitRunFrom(_, _)
DigitRunFrom(s, i) ==
    IF i > Len(s) \/ ~IsDigit(s[i]) THEN <<>>
    ELSE <<s[i]>> \o DigitRunFrom(s, i + 1)

\* re.search(r"\d", s) instead: one digit only
LeadingDigits_OneDigit(s) == IF s # <<>> /\ IsDigit(s[1]) THEN <<s[1]>> ELSE <<>>

LeadingDigits(s) == DigitRunFrom(s, 1)

\* s.strip()
RECURSIVE LStrip(_)
LStrip(s) == IF s # <<>> /\ IsSpace(s[1]) THEN LStrip(Tail(s)) ELSE s

RECURSIVE RStrip(_)
RStrip(s) ==
    IF s # <<>> /\ IsSpace(s[Len(s)]) THEN RStrip(SubSeq(s, 1, Len(s) - 1)) ELSE s

RECURSIVE DigitsValue(_, _)
DigitsValue(s, acc) ==
    IF s = <<>> THEN acc ELSE DigitsValue(Tail(s), 10 * acc + DigitVal(s[1]))

\* a lenient parse in the manner of C's atoi: never an error
PyInt_Lenient(s) ==
    [ok |-> TRUE, val |-> DigitsValue(DigitRunFrom(LStrip(s), 1), 0)]

\* int(s) for a str s: surrounding whitespace is dropped, one sign is
\* allowed, the rest must be one or more digits; anything else is ValueError
PyInt(s) ==
    LET t == RStrip(LStrip(s))
        signed == t # <<>> /\ t[1] \in {"-", "+"}
        body == IF signed THEN Tail(t) ELSE t
        good == body # <<>> /\ \A i \in 1..Len(body) : IsDigit(body[i])
    IN  IF ~good THEN [ok |-> FALSE, val |-> 0]
        ELSE [ok |-> TRUE,
              val |-> IF signed /\ t[1] = "-" THEN -DigitsValue(body, 0)
                      ELSE DigitsValue(body, 0)]

\* ------------------------------------------------------------------------
\* Literal strings of picker.py
\* ------------------------------------------------------------------------

FzfCmd == <<"f", "z", "f", " ", "-", "-", "w", "i", "t", "h", "-", "n", "t", "h", " ", "2", ".", ".">>

Zathura == <<"z", "a", "t", "h", "u", "r", "a">>

ZathuraArgs == <<"-", "P", " ", "$", "p", "a", "g", "e">>

\* pos_strings: the regular expressions \$page, \$xloc, \$yloc match these texts
pos_strings ==
    << <<"$", "p", "a", "g", "e">>,
       <<"$", "x", "l", "o", "c">>,
       <<"$", "y", "l", "o", "c">> >>

NotifySend == <<"n", "o", "t", "i", "f", "y", "-", "s", "e", "n", "d">>

CommandNotFound ==
    <<"C", "o", "m", "m", "a", "n", "d", " ", "n", "o", "t", " ", "f", "o", "u", "n", "d", "!">>

NothingSelected ==
    <<"N", "o", "t", "h", "i", "n", "g", " ", "s", "e", "l", "e", "c", "t", "e", "d", "!">>

NotFoundTail == <<")", " ", "n", "o", "t", " ", "f", "o", "u", "n", "d", "!">>

SelectorNotFound(cmd) ==
    <<"S", "e", "l", "e", "c", "t", "o", "r", " ", "(">> \o cmd \o NotFoundTail

ViewerNotFound(cmd) ==
    <<"P", "D", "F", " ", "v", "i", "e", "w", "e", "r", " ", "(">> \o cmd \o NotFoundTail

FdArgv(base_directory) ==
    << <<"f", "d">>, <<"-", "I">>, <<"-", "t">>, <<"f">>, <<"-", "e">>,
       <<"p", "d", "f">>, <<"-", "a">>, <<".">>, base_directory >>

FdHidden == << <<"-", "H">> >>

FindArgv(base_directory) ==
    << <<"f", "i", "n", "d">>, base_directory, <<"-", "t", "y", "p", "e">>, <<"f">>,
       <<"-", "n", "a", "m", "e">>, <<"*", ".", "p", "d", "f">> >>

\* ------------------------------------------------------------------------
\* External processes.  One record per subprocess.run call: the argument
\* vector, the text fed to standard input, whether the executable was found
\* (FileNotFoundError otherwise) and, if it ran, what it wrote.
\* ------------------------------------------------------------------------

Run(argv, stdin, found, stdout) ==
    [argv |-> argv, stdin |-> stdin, found |-> found,
     stdout |-> IF found THEN stdout ELSE None]

\* merge_strings(a, b): the strings that are not None, joined by a space
merge_strings(a, b) ==
    LET filtered_strings == SelectSeq(<<a, b>>, LAMBDA s : s # None)
    IN  IF filtered_strings # <<>> THEN Join(<<" ">>, filtered_strings) ELSE None

\* send_error(error): print, try notify-send (a missing notify-send is
\* ignored), exit(1).  notify tells whether notify-send was found.
send_error(error, notify) ==
    [outcome |-> "exit1",
     printed |-> error,
     runs |-> <<Run(<<NotifySend, error>>, None, notify, <<>>)>>]

\* try_running_subprocess(cmd, not_found_error, input) in an environment e:
\* e.found: the executable exists; e.stdout: what it writes; e.notify
try_running_subprocess(cmd, not_found_error, input, e) ==
    IF e.found
    THEN [outcome |-> "ok", printed |-> None, stdout |-> e.stdout,
          runs |-> <<Run(cmd, input, TRUE, e.stdout)>>]
    ELSE LET err == send_error(not_found_error, e.notify)
         IN  [outcome |-> err.outcome, printed |-> err.printed, stdout |-> None,
              runs |-> <<Run(cmd, input, FALSE, <<>>)>> \o err.runs]

\* search_pdfs(base_directory, cmd, hidden) in an environment e:
\* e.found: the custom command exists; e.fd, e.find: fd and find exist
search_pdfs(base_directory, cmd, hidden, e) ==
    IF cmd # None
    THEN LET r == try_running_subprocess(ShlexSplit(cmd), CommandNotFound, None, e)
         IN  [outcome |-> r.outcome, printed |-> r.printed, runs |-> r.runs,
              pdfs |-> IF r.outcome = "ok" THEN DropLast(SplitLines(r.stdout)) ELSE <<>>]
    ELSE LET fd == FdArgv(base_directory) \o (IF hidden THEN FdHidden ELSE <<>>)
             find == FindArgv(base_directory)
         IN  IF e.fd
             THEN [outcome |-> "ok", printed |-> None,
                   runs |-> <<Run(fd, None, TRUE, e.stdout)>>,
                   pdfs |-> DropLast(SplitLines(e.stdout))]
             ELSE IF e.find
             THEN [outcome |-> "ok", printed |-> None,
                   runs |-> <<Run(fd, None, FALSE, <<>>),
                              Run(find, None, TRUE, e.stdout)>>,
                   pdfs |-> DropLast(SplitLines(e.stdout))]
             ELSE [outcome |-> "FileNotFoundError", printed |-> None,
                   runs |-> <<Run(fd, None, FALSE, <<>>),
                              Run(find, None, FALSE, <<>>)>>,
                   pdfs |-> <<>>]

\* items[i] = f"{i}\t{items[i]}" for every i (Python counts from 0)
PrefixIndices(items) == [i \in 1..Len(items) |-> Str(i - 1) \o <<"\t">> \o items[i]]

\* select(items, cmd, indices, check) in an environment e:
\* e.found: the selector exists; e.stdout: what it writes
select(items, cmd, indices, check, e) ==
    LET cmd1 == IF cmd = None THEN FzfCmd ELSE cmd
        indices1 == IF cmd = None THEN TRUE ELSE indices
        items1 == IF indices1 THEN PrefixIndices(items) ELSE items
        r == try_running_subprocess(ShlexSplit(cmd1), SelectorNotFound(cmd1),
                                    Join(<<"\n">>, items1), e)
        selection == IF indices1 THEN LeadingDigits(r.stdout) ELSE r.stdout
        n == PyInt(selection)
    IN  IF r.outcome # "ok"
        THEN [outcome |-> r.outcome, printed |-> r.printed, runs |-> r.runs,
              items |-> items1, value |-> 0]
        ELSE IF selection = <<>>
        THEN IF check
             THEN LET err == send_error(NothingSelected, e.notify)
                  IN  [outcome |-> err.outcome, printed |-> err.printed,
                       runs |-> r.runs \o err.runs, items |-> items1, value |-> 0]
             ELSE [outcome |-> "ok", printed |-> None, runs |-> r.runs,
                   items |-> items1, value |-> -1]
        ELSE IF n.ok
        THEN [outcome |-> "ok", printed |-> None, runs |-> r.runs,
              items |-> items1, value |-> n.val]
        ELSE [outcome |-> "ValueError", printed |-> None, runs |-> r.runs,
              items |-> items1, value |-> 0]

\* ------------------------------------------------------------------------
\* pymupdf: a document is its pages (each with its transformation matrix)
\* and its outline.  An outline entry is the list [lvl, title, page, dest]
\* of Document.get_toc(simple=False); dest is a dict that holds the key
\* "to" only when the destination names target coordinates.
\* ------------------------------------------------------------------------

Point(x, y) == [x |-> x, y |-> y]

\* pymupdf.Point(): the zero point
ZeroPoint == Point(0, 0)

\* point * matrix (pymupdf Point.transform)
Transform(p, m) ==
    Point(p.x * m.a + p.y * m.c + m.e, p.x * m.b + p.y * m.d + m.f)

\* doc.load_page(page_id): page_id counts from 0; an id of page_count or
\* more raises ValueError, a negative one counts from the end
load_page(doc, page_id) ==
    LET page_count == Len(doc.pages)
    IN  IF page_id >= page_count THEN [ok |-> FALSE, transformation_matrix |-> None]
        ELSE [ok |-> TRUE,
              transformation_matrix |-> doc.pages[(page_id % page_count) + 1]]

\* try: coords = t[3]["to"]  except KeyError: coords = pymupdf.Point()
DestCoords(dest) == IF "to" \in DOMAIN dest THEN dest.to ELSE ZeroPoint

\* the page whose matrix get_toc uses for entry t: doc.load_page(t[0])
\* (Python's t[0] is t[1] here)
EntryPage(doc, t) == load_page(doc, t[1])

\* the loop body without its line "t[3]["to"] = coords"
TocEntry_NoStore(doc, t, mupdf_coordinate_space) == t

\* one pass of the loop body of get_toc
TocEntry(doc, t, mupdf_coordinate_space) ==
    LET page == EntryPage(doc, t)
        coords == DestCoords(t[4])
        coords1 == IF mupdf_coordinate_space
                   THEN Transform(coords, page.transformation_matrix)
                   ELSE coords
    IN  <<t[1], t[2], t[3],
          [k \in DOMAIN t[4] \cup {"to"} |-> IF k = "to" THEN coords1 ELSE t[4][k]]>>

\* get_toc(path, mupdf_coordinate_space), doc being what pymupdf.open(path)
\* yields (no pages: the file cannot be opened and pymupdf raises)
get_toc(doc, mupdf_coordinate_space) ==
    IF Len(doc.pages) = 0 THEN [outcome |-> "FileDataError", toc |-> <<>>]
    ELSE IF \E i \in 1..Len(doc.toc) : ~EntryPage(doc, doc.toc[i]).ok
    THEN [outcome |-> "ValueError", toc |-> <<>>]
    ELSE [outcome |-> "ok",
          toc |-> [i \in 1..Len(doc.toc) |->
                      TocEntry(doc, doc.toc[i], mupdf_coordinate_space)]]

\* ------------------------------------------------------------------------
\* Viewer invocation
\* ------------------------------------------------------------------------

\* a position is [page, x, y]: the page number is an int, x and y are the
\* float coordinates of a point; NoPosition is position=None
NoPosition == <<>>

\* str(position[i]), i counting from 0
PositionStr(position, i) ==
    IF i = 0 THEN Str(position[1]) ELSE FloatStr(position[i + 1])

\* range(1) instead of range(3): only $page is substituted
SubstitutePosition_PageOnly(position_args, position, i) ==
    ReSub(pos_strings[1], PositionStr(position, 0), position_args)

\* for i in range(3): position_args = re.sub(pos_strings[i], str(position[i]), position_args)
RECURSIVE SubstitutePosition(_, _, _)
SubstitutePosition(position_args, position, i) ==
    IF i >= 3 THEN position_args
    ELSE SubstitutePosition(
             ReSub(pos_strings[i + 1], PositionStr(position, i), position_args),
             position, i + 1)

\* the viewer and the template open_pdf works with: without a viewer
\* command both are replaced by the zathura defaults
ViewerDefaults(cmd, position_args) ==
    IF cmd = None THEN [cmd |-> Zathura, position_args |-> ZathuraArgs]
    ELSE [cmd |-> cmd, position_args |-> position_args]

\* open_pdf taking a missing position for the position (0, 0, 0)
ViewerArgv_ZeroPosition(path, cmd, position_args, position) ==
    LET d == ViewerDefaults(cmd, position_args)
        pos == IF position = NoPosition THEN <<0, 0, 0>> ELSE position
        pa == IF d.position_args # None /\ d.position_args # <<>>
              THEN SubstitutePosition(d.position_args, pos, 0)
              ELSE <<>>
    IN  ShlexSplit(d.cmd) \o <<path>> \o ShlexSplit(pa)

\* the argument vector open_pdf builds
ViewerArgv(path, cmd, position_args, position) ==
    LET d == ViewerDefaults(cmd, position_args)
    IN  IF position = NoPosition THEN ShlexSplit(d.cmd) \o <<path>>
        ELSE LET pa == IF d.position_args # None /\ d.position_args # <<>>
                       THEN SubstitutePosition(d.position_args, position, 0)
                       ELSE <<>>
             IN  ShlexSplit(d.cmd) \o <<path>> \o ShlexSplit(pa)

\* open_pdf(path, cmd, position_args, position) in an environment e
open_pdf(path, cmd, position_args, position, e) ==
    try_running_subprocess(ViewerArgv(path, cmd, position_args, position),
                           ViewerNotFound(ViewerDefaults(cmd, position_args).cmd),
                           None, e)

\* lst[i] for a Python list and an int i: a negative i counts from the end,
\* an i outside -len..len-1 raises IndexError
PyIndex(lst, i) ==
    IF i >= Len(lst) \/ i < -Len(lst) THEN [ok |-> FALSE, at |-> 0]
    ELSE [ok |-> TRUE, at |-> IF i >= 0 THEN i + 1 ELSE Len(lst) + i + 1]

\* ------------------------------------------------------------------------
\* Inputs: command-line arguments and what the environment answers
\* ------------------------------------------------------------------------

\* expandvars("$HOME")
Home == <<"/", "h">>

BaseDirs == {None, <<"/", "d">>}

SearchCmds == {None, <<"l", "s", " ", "/", "d">>}

Selectors == {None, <<"r", "o", "f", "i", " ", "-", "d">>}

PdfSelectorArgs == {None, <<"-", "p", " ", "P">>}

TocSelectorArgs == {None, <<"-", "p", " ", "T">>}

Viewers == {None, <<"s", "i", "o", "y", "e", "k">>}

\* the -pa of the usage example
ExampleTemplate ==
    <<"-", "-", "p", "a", "g", "e", " ", "$", "p", "a", "g", "e", " ",
      "-", "-", "x", "l", "o", "c", " ", "$", "x", "l", "o", "c", " ",
      "-", "-", "y", "l", "o", "c", " ", "$", "y", "l", "o", "c">>

\* -pa: absent, empty, the example, and one where placeholders repeat and
\* touch other text
Templates ==
    {None,
     <<>>,
     ExampleTemplate,
     <<"$", "p", "a", "g", "e", "$", "y", "l", "o", "c", " ", "-", "x", " ",
       "$", "x", "l", "o", "c", "$", "p", "a", "g", "e", "x">>}

\* argparse's result when no option is given
DefaultArgs ==
    [full_path |-> FALSE, no_toc |-> FALSE, hidden |-> FALSE,
     base_directory |-> None, selector |-> None, selector_indices |-> FALSE,
     pdf_selector_args |-> None, toc_selector_args |-> None, pdf_viewer |-> None,
     pdf_viewer_args |-> None, mupdf_coordinate_space |-> FALSE, search_cmd |-> None]

\* the options that reach search_pdfs and the item texts
SearchArgs ==
    {[DefaultArgs EXCEPT !.search_cmd = c, !.base_directory = b, !.hidden = h,
                         !.full_path = f] :
        c \in SearchCmds, b \in BaseDirs, h \in BOOLEAN, f \in BOOLEAN}

\* the options that reach select, with and without a viewer and a template
SelectionArgs ==
    {[DefaultArgs EXCEPT !.selector = s, !.selector_indices = i,
                         !.pdf_selector_args = p, !.toc_selector_args = t,
                         !.no_toc = n, !.pdf_viewer = v,
                         !.pdf_viewer_args = IF v = None THEN None ELSE ExampleTemplate] :
        s \in Selectors, i \in BOOLEAN, p \in PdfSelectorArgs, t \in TocSelectorArgs,
        n \in BOOLEAN, v \in Viewers}

\* the options that reach get_toc and open_pdf
ViewerArgs ==
    {[DefaultArgs EXCEPT !.pdf_viewer = v, !.pdf_viewer_args = a,
                         !.mupdf_coordinate_space = m, !.no_toc = n,
                         !.selector_indices = i] :
        v \in Viewers, a \in Templates, m \in BOOLEAN, n \in BOOLEAN, i \in BOOLEAN}

\* the command lines main is run with
Args == SearchArgs \cup SelectionArgs \cup ViewerArgs

\* what a search command writes: nothing, or one path per line
SearchOutputs ==
    {<<>>,
     <<"/", "d", "/", "a", ".", "p", "d", "f", "\n", "/", "b", ".", "p", "d", "f", "\n">>}

\* what a selector may write when shown the lines sent: nothing, an empty
\* line, other text, one of the lines, or an integer around the valid range
SelectorOutputs(sent) ==
    {<<>>, <<"\n">>, <<"x", "\n">>}
    \cup {sent[k] \o <<"\n">> : k \in 1..Len(sent)}
    \cup {Str(k) \o <<"\n">> : k \in -1..Len(sent)}

\* page transformation matrices: PDF space to MuPDF space for pages of
\* different heights and origins
Matrix(e, f) == [a |-> 1, b |-> 0, c |-> 0, d |-> -1, e |-> e, f |-> f]

DestTo(x, y) == [kind |-> "goto", to |-> Point(x, y)]

DestNamed == [kind |-> "named"]

DocNoToc == [pages |-> <<Matrix(0, 5)>>, toc |-> <<>>]

DocWithToc ==
    [pages |-> <<Matrix(0, 5), Matrix(0, 7), Matrix(-1, 9)>>,
     toc |-> << <<1, <<"I", "n", "t", "r", "o">>, 3, DestTo(1, 2)>>,
                <<2, <<"1", " ", "A">>, 1, DestNamed>> >>]

\* a file pymupdf.open cannot open as a document (it raises instead)
NoDocument == [pages |-> <<>>, toc |-> <<>>]

\* what pymupdf.open may yield for the selected path
Docs == {NoDocument, DocNoToc, DocWithToc}

\* ------------------------------------------------------------------------
\* State
\* ------------------------------------------------------------------------

VARIABLES
    args,          \* the parsed command line
    pc,            \* the step main is about to take, or how the run ended
    pdfs,          \* main's pdfs
    pdf_items,     \* main's pdf_items, as select leaves it
    pdf_index,     \* what select returned for the PDF
    selected_pdf,  \* main's selected_pdf
    doc,           \* the document get_toc opened
    toc,           \* main's toc
    toc_index,     \* main's toc_index
    log,           \* every subprocess.run call so far, in order
    printed,       \* what send_error printed
    call,          \* a direct call of one function: its arguments
    ret            \* ... and its result

vars == <<args, pc, pdfs, pdf_items, pdf_index, selected_pdf, doc, toc,
          toc_index, log, printed, call, ret>>

\* a run of a step, tagged with the step that made it
Tagged(runs, phase) ==
    [i \in 1..Len(runs) |->
        [phase |-> phase, argv |-> runs[i].argv, stdin |-> runs[i].stdin,
         found |-> runs[i].found, stdout |-> runs[i].stdout]]

\* a run that asks again after send_error instead of exiting
Ended_Retry(outcome) == IF outcome = "exit1" THEN "SELECT_PDF" ELSE "CRASH"

\* how a step that did not complete ends the run: exit(1) after send_error,
\* or an exception nothing catches
Ended(outcome) == IF outcome = "exit1" THEN "EXIT1" ELSE "CRASH"

\* The environments of a step.  A field the step cannot read in that
\* environment is held at one value: a command that is not found writes
\* nothing.
Env(outputs) ==
    {e \in [found : BOOLEAN, notify : BOOLEAN, stdout : outputs \cup {<<>>}] :
        ~e.found => e.stdout = <<>>}

SearchEnv(cmd) ==
    {e \in [fd : BOOLEAN, find : BOOLEAN, found : BOOLEAN, notify : BOOLEAN,
            stdout : SearchOutputs] :
        IF cmd # None
        THEN e.fd /\ e.find /\ (e.found => e.notify) /\ (~e.found => e.stdout = <<>>)
        ELSE e.found /\ e.notify /\ (e.fd => e.find)
             /\ (~e.fd /\ ~e.find => e.stdout = <<>>)}

Init ==
    /\ args \in Args
    /\ pc = "SEARCH"
    /\ pdfs = <<>>
    /\ pdf_items = <<>>
    /\ pdf_index = 0
    /\ selected_pdf = None
    /\ doc = NoDocument
    /\ toc = <<>>
    /\ toc_index = 0
    /\ log = <<>>
    /\ printed = None
    /\ call = None
    /\ ret = None

\* main, lines 279-283: search_pdfs
Search ==
    /\ pc = "SEARCH"
    /\ \E e \in SearchEnv(args.search_cmd) :
        LET search_dir == IF args.base_directory # None THEN args.base_directory
                          ELSE Home
            r == search_pdfs(search_dir, args.search_cmd, args.hidden, e)
        IN  /\ log' = log \o Tagged(r.runs, "SEARCH")
            /\ printed' = r.printed
            /\ pdfs' = r.pdfs
            /\ pc' = IF r.outcome = "ok" THEN "SELECT_PDF" ELSE Ended(r.outcome)
    /\ UNCHANGED <<args, pdf_items, pdf_index, selected_pdf, doc, toc, toc_index,
                   call, ret>>

\* pdf_items = [p if args.full_path else re.sub(r".*/", "", p) for p in pdfs]
PdfItems(ps, full_path) ==
    [i \in 1..Len(ps) |-> IF full_path THEN ps[i] ELSE StripDirs(ps[i])]

\* main, lines 286-293: select a PDF and index pdfs with the result
SelectPdf ==
    /\ pc = "SELECT_PDF"
    /\ LET items == PdfItems(pdfs, args.full_path)
           cmd == merge_strings(args.selector, args.pdf_selector_args)
           sent == select(items, cmd, args.selector_indices, TRUE,
                          [found |-> TRUE, notify |-> TRUE, stdout |-> <<>>]).items
       IN  \E e \in Env(SelectorOutputs(sent)) :
            LET r == select(items, cmd, args.selector_indices, TRUE, e)
                at == PyIndex(pdfs, r.value)
            IN  /\ log' = log \o Tagged(r.runs, "SELECT_PDF")
                /\ printed' = r.printed
                /\ pdf_items' = r.items
                /\ IF r.outcome # "ok"
                   THEN /\ pc' = Ended(r.outcome)
                        /\ UNCHANGED <<pdf_index, selected_pdf>>
                   ELSE /\ pdf_index' = r.value
                        /\ IF at.ok
                           THEN selected_pdf' = pdfs[at.at] /\ pc' = "GET_TOC"
                           ELSE UNCHANGED selected_pdf /\ pc' = "CRASH"
    /\ UNCHANGED <<args, pdfs, doc, toc, toc_index, call, ret>>

\* main, lines 296-301: extract the TOC and decide whether to ask for an entry
GetToc ==
    /\ pc = "GET_TOC"
    /\ \E d \in Docs :
        LET r == get_toc(d, args.mupdf_coordinate_space)
        IN  /\ doc' = d
            /\ toc' = r.toc
            /\ pc' = IF r.outcome # "ok" THEN "CRASH"
                     ELSE IF Len(r.toc) = 0 \/ args.no_toc THEN "OPEN_PLAIN"
                     ELSE "SELECT_TOC_ENTRY"
    /\ UNCHANGED <<args, pdfs, pdf_items, pdf_index, selected_pdf, toc_index, log,
                   printed, call, ret>>

\* [t[1] for t in toc]
TocTitles(tc) == [i \in 1..Len(tc) |-> tc[i][2]]

\* main, lines 306-312: select a TOC entry without insisting on one
SelectTocEntry ==
    /\ pc = "SELECT_TOC_ENTRY"
    /\ LET items == TocTitles(toc)
           cmd == merge_strings(args.selector, args.toc_selector_args)
           sent == select(items, cmd, args.selector_indices, FALSE,
                          [found |-> TRUE, notify |-> TRUE, stdout |-> <<>>]).items
       IN  \E e \in Env(SelectorOutputs(sent)) :
            LET r == select(items, cmd, args.selector_indices, FALSE, e)
            IN  /\ log' = log \o Tagged(r.runs, "SELECT_TOC_ENTRY")
                /\ printed' = r.printed
                /\ IF r.outcome # "ok"
                   THEN pc' = Ended(r.outcome) /\ UNCHANGED toc_index
                   ELSE /\ toc_index' = r.value
                        /\ pc' = IF r.value >= 0 THEN "OPEN_AT_POSITION"
                                 ELSE "OPEN_PLAIN"
    /\ UNCHANGED <<args, pdfs, pdf_items, pdf_index, selected_pdf, doc, toc, call, ret>>

\* toc_position = [toc[toc_index][2], toc_point.x, toc_point.y]
TocPosition(t) == <<t[3], t[4].to.x, t[4].to.y>>

\* main, lines 313-320: open the PDF at the position of the chosen entry
OpenAtPosition ==
    /\ pc = "OPEN_AT_POSITION"
    /\ LET at == PyIndex(toc, toc_index)
       IN  IF ~at.ok
           THEN pc' = "CRASH" /\ UNCHANGED <<log, printed>>
           ELSE \E e \in Env({}) :
                 LET r == open_pdf(selected_pdf, args.pdf_viewer, args.pdf_viewer_args,
                                   TocPosition(toc[at.at]), e)
                 IN  /\ log' = log \o Tagged(r.runs, "OPEN_AT_POSITION")
                     /\ printed' = r.printed
                     /\ pc' = IF r.outcome = "ok" THEN "DONE" ELSE Ended(r.outcome)
    /\ UNCHANGED <<args, pdfs, pdf_items, pdf_index, selected_pdf, doc, toc, toc_index,
                   call, ret>>

\* main, lines 302 and 322: open the PDF without a position
OpenPlain ==
    /\ pc = "OPEN_PLAIN"
    /\ \E e \in Env({}) :
        LET r == open_pdf(selected_pdf, args.pdf_viewer, None, NoPosition, e)
        IN  /\ log' = log \o Tagged(r.runs, "OPEN_PLAIN")
            /\ printed' = r.printed
            /\ pc' = IF r.outcome = "ok" THEN "DONE" ELSE Ended(r.outcome)
    /\ UNCHANGED <<args, pdfs, pdf_items, pdf_index, selected_pdf, doc, toc, toc_index,
                   call, ret>>

Next ==
    \/ Search
    \/ SelectPdf
    \/ GetToc
    \/ SelectTocEntry
    \/ OpenAtPosition
    \/ OpenPlain

Spec == Init /\ [][Next]_vars

\* ------------------------------------------------------------------------
\* select called on its own, over item lists long enough for indices of
\* more than one digit
\* ------------------------------------------------------------------------

MaxItems == 11

\* item texts: plain, all digits, digits followed by text
ItemPool == << <<"a">>, <<"1", "2">>, <<"3", " ", "b">> >>

ItemLists ==
    {[i \in 1..n |-> ItemPool[((i + r) % Len(ItemPool)) + 1]] :
        n \in 0..MaxItems, r \in 1..Len(ItemPool)}

SelectCalls ==
    [items : ItemLists, cmd : Selectors, indices : BOOLEAN, check : BOOLEAN]

\* a selector may end its line with a newline or not
SelectOutputs(sent) ==
    SelectorOutputs(sent) \cup {DropLast(o) : o \in SelectorOutputs(sent) \ {<<>>}}

IdleMain ==
    /\ args = DefaultArgs
    /\ pdfs = <<>>
    /\ pdf_items = <<>>
    /\ pdf_index = 0
    /\ selected_pdf = None
    /\ doc = NoDocument
    /\ toc = <<>>
    /\ toc_index = 0
    /\ log = <<>>
    /\ printed = None

InitSelect ==
    /\ IdleMain
    /\ pc = "CALL"
    /\ call \in SelectCalls
    /\ ret = None

\* select(items, cmd, indices, check)
CallSelect ==
    /\ pc = "CALL"
    /\ LET sent == select(call.items, call.cmd, call.indices, call.check,
                          [found |-> TRUE, notify |-> TRUE, stdout |-> <<>>]).items
       IN  \E e \in Env(SelectOutputs(sent)) :
            ret' = select(call.items, call.cmd, call.indices, call.check, e)
    /\ pc' = "RETURNED"
    /\ UNCHANGED <<args, pdfs, pdf_items, pdf_index, selected_pdf, doc, toc, toc_index,
                   log, printed, call>>

NextSelect == CallSelect

SpecSelect == InitSelect /\ [][NextSelect]_vars

\* ------------------------------------------------------------------------
\* get_toc called on its own, over documents of up to MaxPages pages and
\* MaxEntries outline entries
\* ------------------------------------------------------------------------

MaxPages == 3

MaxEntries == 2

\* page i of a document whose pages differ in size and origin
PageMatrix(i) == Matrix(1 - i, 4 + i)

\* the pages of an n-page document: all alike, or each with its own matrix
PageLists(n) ==
    {[i \in 1..n |-> PageMatrix(1)], [i \in 1..n |-> PageMatrix(i)]}

Title == <<"T">>

\* outline entries of an n-page document; levels range over 1..MaxPages, so
\* a level can be below the page count or reach it
Entries(n) ==
    {<<lvl, Title, page, dest>> :
        lvl \in 1..MaxPages, page \in 1..n, dest \in {DestNamed, DestTo(1, 2)}}

RECURSIVE SeqsUpTo(_, _)
SeqsUpTo(S, n) ==
    IF n = 0 THEN {<<>>}
    ELSE LET shorter == SeqsUpTo(S, n - 1)
         IN  shorter \cup {Append(q, x) : q \in {r \in shorter : Len(r) = n - 1}, x \in S}

TocDocs ==
    UNION {[pages : PageLists(n), toc : SeqsUpTo(Entries(n), MaxEntries)] :
              n \in 1..MaxPages}

TocCalls == [doc : TocDocs, mupdf_coordinate_space : BOOLEAN]

InitToc ==
    /\ IdleMain
    /\ pc = "CALL"
    /\ call \in TocCalls
    /\ ret = None

\* get_toc(path, mupdf_coordinate_space)
CallGetToc ==
    /\ pc = "CALL"
    /\ ret' = get_toc(call.doc, call.mupdf_coordinate_space)
    /\ pc' = "RETURNED"
    /\ UNCHANGED <<args, pdfs, pdf_items, pdf_index, selected_pdf, doc, toc, toc_index,
                   log, printed, call>>

NextToc == CallGetToc

SpecToc == InitToc /\ [][NextToc]_vars

\* ------------------------------------------------------------------------
\* Properties of get_toc (specification SpecToc)
\* ------------------------------------------------------------------------

TocReturned == pc = "RETURNED" /\ ret.outcome = "ok"

\* entry i of the outline has no explicit target coordinates
LacksCoords(i) == "to" \notin DOMAIN call.doc.toc[i][4]

\* the transformation matrix of the page entry i targets (page numbers of
\* outline entries count from 1)
TargetMatrix(i) == call.doc.pages[call.doc.toc[i][3]]

\* C1: with the device-space flag set, the point of every returned entry is
\* the entry's point transformed with the matrix of the page the entry
\* targets.
C1_TargetPageTransform ==
    (TocReturned /\ call.mupdf_coordinate_space) =>
        \A i \in 1..Len(ret.toc) :
            ret.toc[i][4].to
                = Transform(DestCoords(call.doc.toc[i][4]), TargetMatrix(i))

\* C5 as stated: an entry without target coordinates is returned with the
\* point (0,0), whatever the coordinate-space flag.
C5_ZeroPointInBothSpaces ==
    TocReturned =>
        \A i \in 1..Len(ret.toc) :
            LacksCoords(i) =>
                /\ "to" \in DOMAIN ret.toc[i][4]
                /\ ret.toc[i][4].to = ZeroPoint

\* C5 amended: an entry without target coordinates is returned with a
\* defined point; it is (0,0) in native page space, and in device space it
\* is the image of (0,0) under the transformation matrix of a page of the
\* document (the translation part of that matrix).
C5_DefinedPoint ==
    TocReturned =>
        \A i \in 1..Len(ret.toc) :
            LacksCoords(i) =>
                /\ "to" \in DOMAIN ret.toc[i][4]
                /\ IF call.mupdf_coordinate_space
                   THEN \E p \in 1..Len(call.doc.pages) :
                           ret.toc[i][4].to
                               = Point(call.doc.pages[p].e, call.doc.pages[p].f)
                   ELSE ret.toc[i][4].to = ZeroPoint

C5_Witness ==
    /\ TocReturned
    /\ call.mupdf_coordinate_space
    /\ \E i \in 1..Len(ret.toc) : LacksCoords(i) /\ ret.toc[i][4].to # ZeroPoint
    /\ \E i \in 1..Len(ret.toc) : ~LacksCoords(i)

\* ------------------------------------------------------------------------
\* Properties of select (specification SpecSelect)
\* ------------------------------------------------------------------------

\* select ran the selector, and SelectorWrote is what the selector wrote
SelectorRan == pc = "RETURNED" /\ ret.runs[1].found

SelectorWrote == ret.runs[1].stdout

\* select works in index-prefixing mode
IndexMode == call.cmd = None \/ call.indices

\* item k (counting from 0) as index-prefixing mode sends it
PrefixedLine(k) == Str(k) \o <<"\t">> \o call.items[k + 1]

\* C6: in index-prefixing mode every item k is sent as "<k>\t<item>", and
\* when the selector writes the k-th prefixed line or just the integer k
\* (with or without the newline ending it), select returns k, which
\* indexes the caller's list at item k.
C6_RoundTrip ==
    (SelectorRan /\ IndexMode) =>
        /\ ret.runs[1].stdin
               = Join(<<"\n">>, [j \in 1..Len(call.items) |-> PrefixedLine(j - 1)])
        /\ \A k \in 0..(Len(call.items) - 1) :
              SelectorWrote \in {PrefixedLine(k), PrefixedLine(k) \o <<"\n">>,
                                 Str(k), Str(k) \o <<"\n">>}
                  => /\ ret.outcome = "ok"
                     /\ ret.value = k
                     /\ PyIndex(call.items, ret.value) = [ok |-> TRUE, at |-> k + 1]

\* index 10 of an eleven-item list, whose own text begins with digits
C6_Witness ==
    /\ SelectorRan
    /\ IndexMode
    /\ Len(call.items) = 11
    /\ IsDigit(call.items[11][1])
    /\ SelectorWrote = PrefixedLine(10) \o <<"\n">>
    /\ ret.value = 10

\* the first whitespace-delimited token of s, <<>> if there is none
LeadingToken(s) == IF ShlexSplit(s) = <<>> THEN <<>> ELSE ShlexSplit(s)[1]

\* tok is an integer: an optional sign, then one or more digits
IsIntegerText(tok) ==
    LET body == IF tok # <<>> /\ tok[1] \in {"-", "+"} THEN Tail(tok) ELSE tok
    IN  body # <<>> /\ \A i \in 1..Len(body) : IsDigit(body[i])

\* non-empty output whose leading token is not an integer
Malformed(s) == s # <<>> /\ ~IsIntegerText(LeadingToken(s))

IsNotify(r) == r.argv # <<>> /\ r.argv[1] = NotifySend

\* the calls that tried to start the viewer, and those that started it
ViewerCalls ==
    {i \in DOMAIN log :
        log[i].phase \in {"OPEN_PLAIN", "OPEN_AT_POSITION"} /\ ~IsNotify(log[i])}

ViewerLaunches == {i \in ViewerCalls : log[i].found}

\* the calls that tried to start a selector in the given phase
SelectorCalls(phase) ==
    {i \in DOMAIN log : log[i].phase = phase /\ ~IsNotify(log[i])}

\* the words of the viewer command: the override, or zathura
ViewerWords ==
    IF args.pdf_viewer = None THEN <<Zathura>> ELSE ShlexSplit(args.pdf_viewer)

\* page, x and y of the chosen TOC entry as decimal strings
ChosenTexts ==
    LET t == toc[toc_index + 1]
    IN  <<Str(t[3]), FloatStr(t[4].to.x), FloatStr(t[4].to.y)>>

\* a word with the three tokens replaced
Substituted(w) ==
    ReSub(pos_strings[3], ChosenTexts[3],
          ReSub(pos_strings[2], ChosenTexts[2],
                ReSub(pos_strings[1], ChosenTexts[1], w)))

\* the template split into words, the tokens replaced in each word
TemplateWords(template) ==
    IF template = None THEN <<>>
    ELSE [i \in 1..Len(ShlexSplit(template)) |-> Substituted(ShlexSplit(template)[i])]

\* C2 as stated: with a position, the arguments after the file path are the
\* user's template, split and substituted, for every viewer configuration.
C2_UserTemplateAlways ==
    \A i \in ViewerCalls :
        log[i].phase = "OPEN_AT_POSITION" =>
            log[i].argv
                = ViewerWords \o <<selected_pdf>> \o TemplateWords(args.pdf_viewer_args)

\* C2 amended: with a position and a viewer command override, the arguments
\* after the file path are the user's template, split and substituted (none
\* for an empty or absent template); with the default viewer they are
\* "-P" and the page number, whatever the user's template.
C2_TemplateByViewer ==
    \A i \in ViewerCalls :
        log[i].phase = "OPEN_AT_POSITION" =>
            log[i].argv
                = ViewerWords \o <<selected_pdf>>
                  \o (IF args.pdf_viewer = None THEN << <<"-", "P">>, ChosenTexts[1] >>
                      ELSE TemplateWords(args.pdf_viewer_args))

\* a template with repeated placeholders, substituted for an override viewer
C2_Witness ==
    /\ pc = "DONE"
    /\ args.pdf_viewer # None
    /\ args.mupdf_coordinate_space
    /\ args.pdf_viewer_args \notin {None, <<>>, ExampleTemplate}
    /\ \E i \in ViewerLaunches : log[i].phase = "OPEN_AT_POSITION"

\* C3: without a custom search command, when neither fd nor find can be
\* executed the run ends through send_error: message printed, notify-send
\* tried, exit code 1.
C3_LoudFailure ==
    (/\ args.search_cmd = None
     /\ Len(log) >= 2
     /\ log[1].phase = "SEARCH" /\ ~log[1].found
     /\ log[2].phase = "SEARCH" /\ ~log[2].found /\ ~IsNotify(log[2]))
        => /\ pc = "EXIT1"
           /\ printed # None
           /\ \E i \in DOMAIN log : IsNotify(log[i])

\* no TOC entry was chosen: the TOC is empty, or suppressed, or the TOC
\* selector wrote nothing
NoEntryChosen ==
    \/ Len(toc) = 0
    \/ args.no_toc
    \/ \E i \in SelectorCalls("SELECT_TOC_ENTRY") : log[i].found /\ log[i].stdout = <<>>

\* C4: whenever no TOC entry was chosen, the viewer is called with the
\* viewer command and the file path and nothing else.
C4_PlainOpen ==
    NoEntryChosen =>
        \A i \in ViewerCalls : log[i].argv = ViewerWords \o <<selected_pdf>>

\* a cancelled TOC selection with an override viewer and a template given
C4_Witness ==
    /\ pc = "DONE"
    /\ args.pdf_viewer # None
    /\ args.pdf_viewer_args = ExampleTemplate
    /\ ViewerLaunches # {}
    /\ \E i \in SelectorCalls("SELECT_TOC_ENTRY") : log[i].found /\ log[i].stdout = <<>>

\* the order of the steps; the three ways a run ends come last
Rank(p) ==
    CASE p = "SEARCH" -> 1
      [] p = "SELECT_PDF" -> 2
      [] p = "GET_TOC" -> 3
      [] p = "SELECT_TOC_ENTRY" -> 4
      [] p \in {"OPEN_PLAIN", "OPEN_AT_POSITION"} -> 5
      [] OTHER -> 6

StepsAllowed ==
    {<<"SEARCH", "SELECT_PDF">>, <<"SELECT_PDF", "GET_TOC">>,
     <<"GET_TOC", "OPEN_PLAIN">>, <<"GET_TOC", "SELECT_TOC_ENTRY">>,
     <<"SELECT_TOC_ENTRY", "OPEN_PLAIN">>, <<"SELECT_TOC_ENTRY", "OPEN_AT_POSITION">>,
     <<"OPEN_PLAIN", "DONE">>, <<"OPEN_AT_POSITION", "DONE">>}
    \cup {<<p, "EXIT1">> : p \in {"SEARCH", "SELECT_PDF", "SELECT_TOC_ENTRY",
                                  "OPEN_PLAIN", "OPEN_AT_POSITION"}}
    \cup {<<p, "CRASH">> : p \in {"SEARCH", "SELECT_PDF", "GET_TOC", "SELECT_TOC_ENTRY",
                                  "OPEN_PLAIN", "OPEN_AT_POSITION"}}

\* what one step of a run may do
OnePassStep ==
    /\ <<pc, pc'>> \in StepsAllowed
    /\ Rank(pc') > Rank(pc)
    \* the calls made so far stay, the new ones belong to the step taken
    /\ Len(log') >= Len(log)
    /\ SubSeq(log', 1, Len(log)) = log
    /\ \A i \in (Len(log) + 1)..Len(log') : log'[i].phase = pc
    \* a step starts one command of its own at most; only send_error's
    \* notify-send may follow it, and then the run ends
    /\ \A i \in (Len(log) + 1)..Len(log') :
          (log'[i].found /\ ~IsNotify(log'[i])) =>
              \A j \in (i + 1)..Len(log') : IsNotify(log'[j]) /\ pc' = "EXIT1"
    /\ \A i \in (Len(log) + 1)..Len(log') : IsNotify(log'[i]) => i = Len(log')
    \* the TOC selector only for a TOC that is there and wanted
    /\ pc' = "SELECT_TOC_ENTRY" => Len(toc') > 0 /\ ~args.no_toc
    /\ (pc = "GET_TOC" /\ pc' = "OPEN_PLAIN") => Len(toc') = 0 \/ args.no_toc
    /\ (pc = "SELECT_TOC_ENTRY" /\ pc' = "OPEN_PLAIN") => toc_index' < 0
    /\ pc' = "OPEN_AT_POSITION" => toc_index' >= 0
    \* the viewer at most once, after a PDF selector that ran, and last
    /\ ViewerCalls = {}
    /\ Cardinality(ViewerLaunches') <= 1
    /\ ViewerLaunches' # {} =>
          /\ pc' = "DONE"
          /\ selected_pdf # None
          /\ \E i \in SelectorCalls("SELECT_PDF") : log[i].found
          /\ \A i \in ViewerLaunches' : i = Len(log')

\* C7: a run is one pass through SEARCH, SELECT_PDF, then OPEN_PLAIN or
\* SELECT_TOC_ENTRY followed by OPEN_PLAIN or OPEN_AT_POSITION; no step is
\* taken twice, every command completes before the next step, the TOC
\* selector runs only for a non-empty, unsuppressed TOC, the viewer is
\* started at most once, after a PDF selection, and nothing is started
\* after it.
C7_OnePass == [][OnePassStep]_vars

C7_Witness ==
    /\ pc = "DONE"
    /\ \E i \in SelectorCalls("SELECT_TOC_ENTRY") : log[i].found
    /\ \E i \in ViewerLaunches : log[i].phase = "OPEN_AT_POSITION" /\ i = Len(log)

\* the items each selection phase offers
PhaseItems(phase) ==
    IF phase = "SELECT_PDF" THEN PdfItems(pdfs, args.full_path) ELSE TocTitles(toc)

\* C8: without a selector override both selection phases run fzf with the
\* items index-prefixed, and extra selector arguments only follow the
\* selector command.
C8_DefaultSelector ==
    args.selector = None =>
        \A phase \in {"SELECT_PDF", "SELECT_TOC_ENTRY"} :
            \A i \in SelectorCalls(phase) :
                /\ Len(log[i].argv) >= Len(ShlexSplit(FzfCmd))
                /\ SubSeq(log[i].argv, 1, Len(ShlexSplit(FzfCmd))) = ShlexSplit(FzfCmd)
                /\ log[i].stdin = Join(<<"\n">>, PrefixIndices(PhaseItems(phase)))

\* C10: when the viewer is started, the file is the search result at the
\* integer the PDF selector emitted and a chosen TOC entry is the one at
\* the integer the TOC selector emitted, both within 0..n-1.
C10_OwnIndex ==
    ViewerLaunches # {} =>
        /\ pdf_index \in 0..(Len(pdfs) - 1)
        /\ selected_pdf = pdfs[pdf_index + 1]
        /\ \A i \in ViewerLaunches :
              log[i].phase = "OPEN_AT_POSITION" => toc_index \in 0..(Len(toc) - 1)

====
